---- MODULE Spec2Model ----
(***************************************************************************)
(* A model of soundtools.py: the Music object (wave cache, sample format,  *)
(* note table) and the .erfan container codec.                             *)
(*                                                                         *)
(* Numbers.  Frequencies are fixed-point integers in units of 1/FreqScale  *)
(* Hz, so that halving a whole-Hz reference up to ten times is exact, as   *)
(* it is in binary floating point.  Powers of the semitone ratio are       *)
(* fixed-point integers in units of 1/SemiScale.  Sample values and        *)
(* volumes are integers in units of 1/AmpDen, durations in units of        *)
(* 1/DurDen seconds.                                                       *)
(***************************************************************************)
EXTENDS Integers, Sequences, FiniteSets, TLC

VARIABLES
    TUNE,              \* Music.TUNE: tones per octave
    MIDDLE_A,          \* Music.MIDDLE_A: reference frequency
    BASS_A,            \* Music.BASS_A: the reference folded down; Unset before assign_middle_a
    _hbl,              \* Music._hbl: exponent + 1; Unset before assign_middle_a
    SEMI_TONE,         \* Music.SEMI_TONE: 2^(1/TUNE); Unset before init
    _NOTES,            \* Music._NOTES: note name -> frequency
    FULL_NOTE_NAMES,   \* Music.FULL_NOTE_NAMES: list of note names
    dtype,             \* Sounds.dtype
    min_amp,           \* Sounds.min_amp
    max_amp,           \* Sounds.max_amp
    existed_notes,     \* Sounds.existed_notes: the wave cache, key -> unit shape
    ret,               \* what the last call returned
    err,               \* the exception the last call raised, or NoError
    func_calls,        \* call-count hook: generator invocations made by the last call
    cast,              \* what the build does with an out-of-range float-to-integer cast
    disk,              \* the bytes of the .erfan file on disk
    stream,            \* Music.stream: the descriptor the output stream was opened with
    exported,          \* the arguments of the last export_to_erfan call
    bufs,              \* the arrays the caller passed to the last call, as the call left them
    written,           \* what the last play_buffer call wrote to the output stream, write by write
    threads,           \* the concurrent callers of a cached oscillator: where each one is
    stores,            \* call-count hook: how often each cache key has been stored
    op                 \* the name of the last call

vars == <<TUNE, MIDDLE_A, BASS_A, _hbl, SEMI_TONE, _NOTES, FULL_NOTE_NAMES,
          dtype, min_amp, max_amp, existed_notes, ret, err, func_calls, cast,
          disk, stream, exported, bufs, written, threads, stores, op>>

musicVars == <<TUNE, MIDDLE_A, BASS_A, _hbl, SEMI_TONE, _NOTES, FULL_NOTE_NAMES>>
soundVars == <<dtype, min_amp, max_amp, existed_notes>>
codecVars == <<disk, exported>>
\* what no call of a single caller on the object itself touches
hostVars == <<cast, bufs, written, threads, stores>>

----------------------------------------------------------------------------
(* Bounds of the model *)

\* tones per octave tried by the tuning specification: 1..MaxTune
MaxTune == 51
\* generate_note_names is not called again once the name list is longer than this
MaxNames == 60
\* a cache miss is explored only while the cache then holds at most this many entries
MaxCache == 1

(* Fixed-point resolutions *)
FreqScale == 2^10
SemiScale == 2^13
AmpDen == 2^2
DurDen == 2^4

Hz(n) == n * FreqScale

\* an attribute that has not been assigned yet
Unset == 0

NoError == "none"
None == [returned |-> FALSE, value |-> <<>>]
Returned(v) == [returned |-> TRUE, value |-> v]

----------------------------------------------------------------------------
(* Notes: a dict whose keys are upper-cased.  Every key the model inserts  *)
(* is built from upper-case letters, "#" and digits, which upper() leaves  *)
(* as they are.                                                            *)

EmptyDict == [k \in {} |-> 0]

\* d[k] = v: the entry for k is added or replaced
SetItem(d, k, v) == (k :> v) @@ d

----------------------------------------------------------------------------
(* Music.generate_note_names *)

NOTE_NAMES == <<"A", "B", "C", "D", "E", "F", "G", "H", "I", "J", "K", "L", "M",
                "N", "O", "P", "Q", "R", "S", "T", "U", "V", "W", "X", "Y", "Z">>

\* a loop that appends the letters alone, without the sharps
LettersOnly(names, tune, k) == names \o SubSeq(NOTE_NAMES, k, Len(NOTE_NAMES))

\* the for loop over NOTE_NAMES, from its k-th letter on
RECURSIVE NamesLoop(_, _, _)
NamesLoop(names, tune, k) ==
    IF k > Len(NOTE_NAMES) THEN names
    ELSE IF Len(names) = tune THEN names
    ELSE LET n == NOTE_NAMES[k]
             a == Append(names, n)
             b == IF n # "B" /\ n # "E" THEN Append(a, n \o "#") ELSE a
         IN  NamesLoop(b, tune, k + 1)

\* the result of generate_note_names: the new list and the exception raised
NoteNamesResult(names, tune) ==
    IF names # <<>> /\ Len(names) < tune
    THEN [names |-> names, err |-> "Exception"]
    ELSE [names |-> NamesLoop(names, tune, 1), err |-> NoError]

----------------------------------------------------------------------------
(* Music.assign_middle_a *)

\* how many times lim can be doubled and stay at most m
RECURSIVE Doublings(_, _)
Doublings(m, lim) == IF lim * 2 <= m THEN 1 + Doublings(m, lim * 2) ELSE 0

\* int(np.log2(middle_a / 20)): int() truncates toward zero
Exponent(middle_a) ==
    IF middle_a >= Hz(20) THEN Doublings(middle_a, Hz(20))
    ELSE 0 - Doublings(Hz(20), middle_a)

\* BASS_A = MIDDLE_A / 2**exponent
FoldDown(middle_a, exponent) ==
    IF exponent >= 0 THEN middle_a \div (2^exponent)
    ELSE middle_a * 2^(0 - exponent)

----------------------------------------------------------------------------
(* The semitone ratio and its powers *)

\* the square of p, or p times its square, in fixed point; a value that has
\* passed 2 is not raised further
Squared(x, p, odd) ==
    IF p > 2 * SemiScale THEN p
    ELSE IF ~odd \/ (p * p) \div SemiScale > 2 * SemiScale THEN (p * p) \div SemiScale
    ELSE (((p * p) \div SemiScale) * x) \div SemiScale

\* np.power(x, n) in fixed point, by repeated squaring
RECURSIVE PowFix(_, _)
PowFix(x, n) ==
    IF n = 0 THEN SemiScale
    ELSE Squared(x, PowFix(x, n \div 2), n % 2 = 1)

\* the largest x in lo..hi with x^tune <= 2
RECURSIVE RootOfTwo(_, _, _)
RootOfTwo(lo, hi, tune) ==
    IF lo >= hi THEN lo
    ELSE LET mid == (lo + hi + 1) \div 2
         IN  IF PowFix(mid, tune) <= 2 * SemiScale
             THEN RootOfTwo(mid, hi, tune)
             ELSE RootOfTwo(lo, mid - 1, tune)

\* np.power(2, 1/TUNE)
SemiTone(tune) == RootOfTwo(SemiScale, 2 * SemiScale, tune)

----------------------------------------------------------------------------
(* Music.assign_frequencies *)

\* BASS_A * np.power(SEMI_TONE, i) * np.power(2, octave), given np.power(SEMI_TONE, i)
Frequency(bass, power, octave) ==
    ((bass * power) \div SemiScale) * 2^octave

\* a label whose octave offset is one too small
ShiftedKey(names, tune, hbl, octave, i) ==
    names[(i % tune) + 1] \o ToString(octave - (hbl - 4))

\* FULL_NOTE_NAMES[i % TUNE] + str(octave - (_hbl - 5))
NoteKey(names, tune, hbl, octave, i) ==
    names[(i % tune) + 1] \o ToString(octave - (hbl - 5))

\* a table that stores every computed frequency up to 20,000 Hz
NoLowerLimit(frequency) == TRUE

\* whether a computed frequency is stored in the table
InRange(frequency) == frequency >= Hz(20)

\* whether a computed frequency ends the generation
TooHigh(frequency) == frequency > Hz(20000)

\* the least element of a set of numbers
Least(S) == CHOOSE i \in S : \A j \in S : i <= j

\* the step at which the for loop of an octave is left, f being the frequency
\* of every step: the first step above 20,000 Hz, or the first one to be
\* stored that has no name, or TUNE when the loop runs to its end
LastStep(obj, f) ==
    LET out == {i \in DOMAIN f : TooHigh(f[i]) \/ (InRange(f[i]) /\ (i % obj.tune) + 1 > Len(obj.names))}
    IN  IF out = {} THEN obj.tune ELSE Least(out)

\* the items the for loop of an octave sets, given the key of every step
\* that is stored; of two steps with one key the later one stays
OctaveItems(f, key) ==
    [k \in {key[i] : i \in DOMAIN key} |->
        f[CHOOSE i \in DOMAIN key : key[i] = k /\ \A j \in DOMAIN key : key[j] = k => j <= i]]

\* what the for loop of an octave leaves, given the step it is left at
LoopResult(obj, notes, octave, f, last) ==
    [notes |-> OctaveItems(f, [i \in {j \in 0..(last - 1) : InRange(f[j])} |->
                              NoteKey(obj.names, obj.tune, obj.hbl, octave, i)]) @@ notes,
     frequency |-> IF last < obj.tune THEN f[last] ELSE f[obj.tune - 1],
     err |-> IF last < obj.tune /\ ~TooHigh(f[last]) THEN "IndexError" ELSE NoError]

\* the for loop of one octave
ForLoop(obj, notes, octave) ==
    \* the frequency computed at every step
    LET f == [i \in 0..(obj.tune - 1) |-> Frequency(obj.bass, obj.power[i], octave)]
    IN  LoopResult(obj, notes, octave, f, LastStep(obj, f))

\* the while loop, from the given octave on; r is what the for loop of the
\* octave before left
RECURSIVE WhileLoop(_, _, _)
WhileLoop(obj, r, octave) ==
    IF r.err # NoError THEN r
    ELSE IF r.frequency <= Hz(20000)
    THEN WhileLoop(obj, ForLoop(obj, r.notes, octave), octave + 1)
    ELSE r

\* the table assign_frequencies starts to fill: the dict the object holds
StartTable(notes) == notes

\* the result of assign_frequencies on the object's attributes
FrequenciesResult(obj, notes) ==
    IF obj.bass = Unset \/ obj.semi = Unset
    THEN [notes |-> notes, frequency |-> 0, err |-> "AttributeError"]
    ELSE WhileLoop(obj, [notes |-> StartTable(notes), frequency |-> 0, err |-> NoError], 0)

\* the attributes assign_frequencies reads, with np.power(SEMI_TONE, i) for every step i
Obj(tune, bass, semi, hbl, names) ==
    [tune |-> tune, bass |-> bass, semi |-> semi, hbl |-> hbl, names |-> names,
     power |-> [i \in 0..(tune - 1) |-> PowFix(semi, i)]]

----------------------------------------------------------------------------
(* Sounds: sample formats *)

Dtypes == {"float32", "int16", "uint8"}
\* the formats change_dtype is tried with
SpecDtypes == {"float32", "int16"}

\* np.iinfo(dtype).min
IMin(d) == IF d = "int16" THEN 0 - 2^15 ELSE 0
\* np.iinfo(dtype).max
IMax(d) == IF d = "int16" THEN 2^15 - 1 ELSE 2^8 - 1

\* whether the format's kind is 'i' or 'u'
IntKind(d) == d \in {"uint8", "int16"}

\* an integer result kept in its format: numpy wraps it around; a float is kept
Wrap(d, x) ==
    IF ~IntKind(d) THEN x
    ELSE AmpDen * ((((x \div AmpDen) - IMin(d)) % (IMax(d) - IMin(d) + 1)) + IMin(d))

\* Sounds.change_dtype: the amplitude range of a format
MinAmp(d) == IF d = "float32" THEN 0 - 1 ELSE IMin(d) + 1
MaxAmp(d) == IF d = "float32" THEN 1 ELSE IMax(d) - 1

\* a value (in 1/AmpDen) truncated toward zero to a whole number
Trunc(x) == IF x >= 0 THEN x \div AmpDen ELSE 0 - ((0 - x) \div AmpDen)

\* a whole number cast to an integer format: in range it is kept; out of
\* range the C cast is undefined, and the build wraps or saturates
CastInt(d, n) ==
    IF n >= IMin(d) /\ n <= IMax(d) THEN n
    ELSE IF cast = "wrap" THEN ((n - IMin(d)) % (IMax(d) - IMin(d) + 1)) + IMin(d)
    ELSE IF n < IMin(d) THEN IMin(d) ELSE IMax(d)

\* ndarray.astype(d) of one value
AsType(d, x) ==
    IF d \in {"float32", "float64"} THEN x ELSE AmpDen * CastInt(d, Trunc(x))

\* the product of two values
Mul(a, b) == (a * b) \div AmpDen

Array(d, data) == [type |-> "ndarray", dtype |-> d, data |-> data]

----------------------------------------------------------------------------
(* Sounds: the generators *)

\* Sounds.default_sample_rate: the object is constructed with sample_rate=4,
\* four samples to the second
default_sample_rate == 2^2

\* len(np.arange(default_sample_rate * dur)): the ceiling of the product
NSamples(dur) == (default_sample_rate * dur + DurDen - 1) \div DurDen

\* sin(tau * freq / default_sample_rate * n) at a sample rate of 4: a quarter turn per step
Sin(freq, n) ==
    LET q == (freq * n) % default_sample_rate
    IN  IF q = 1 THEN AmpDen ELSE IF q = 3 THEN 0 - AmpDen ELSE 0

\* (-1) ** floor(2 * f / default_sample_rate * n)
Sqr(f, n) ==
    IF ((2 * f * n) \div default_sample_rate) % 2 = 0 THEN AmpDen ELSE 0 - AmpDen

\* the format of a Python number times an array: a float leaves a float32
\* array float32 and turns an integer array into float64; an int keeps the format
Scaled(d, isfloat) ==
    IF ~IntKind(d) THEN d ELSE IF isfloat THEN "float64" ELSE d

\* a Python number s times one item x of an array of format d: the product
\* with an int is kept in the array's format
ScalarTimes(s, isfloat, d, x) ==
    IF isfloat THEN Mul(s, x) ELSE Wrap(d, Mul(s, x))

\* Sounds.sine_wave
sine_wave(freq, dur, vol) ==
    Array(dtype, [n \in 1..NSamples(dur) |-> AsType(dtype, Mul(vol, Sin(freq, n - 1)))])

\* Sounds.fast_square_wave: vol times an array of the object's format
fast_square_wave(f, dur, vol, isfloat) ==
    Array(Scaled(dtype, isfloat),
          [n \in 1..NSamples(dur) |->
              ScalarTimes(vol, isfloat, dtype, AsType(dtype, Sqr(f, n - 1)))])

\* len(np.arange(dur * default_sample_rate + T)) for T = 1 / freq / 2 * default_sample_rate
SawSamples(freq, dur) ==
    (default_sample_rate * dur * 2 * freq + default_sample_rate * DurDen
        + 2 * freq * DurDen - 1) \div (2 * freq * DurDen)

\* int(T)
SawSkip(freq) == default_sample_rate \div (2 * freq)

\* t - floor(t) - 0.5 for t = freq * k / default_sample_rate
Saw(freq, k) ==
    (((freq * k) % default_sample_rate) * AmpDen) \div default_sample_rate - AmpDen \div 2

\* Sounds.fast_sawtooth_wave, for freq > 0: the leading int(T) items are cut off
fast_sawtooth_wave(freq, dur, vol, isfloat) ==
    Array(Scaled(dtype, isfloat),
          [n \in 1..(SawSamples(freq, dur) - SawSkip(freq)) |->
              ScalarTimes(2 * vol, isfloat, dtype,
                          AsType(dtype, Saw(freq, n - 1 + SawSkip(freq))))])

WaveTypes == {"sine", "fast_sqr"}

\* the generator a decorated method wraps, called with a volume that is a
\* Python float or a Python int
func(wave_type, freq, dur, vol, isfloat) ==
    IF wave_type = "sine" THEN sine_wave(freq, dur, vol)
    ELSE IF wave_type = "fast_sqr" THEN fast_square_wave(freq, dur, vol, isfloat)
    ELSE fast_sawtooth_wave(freq, dur, vol, isfloat)

\* Sounds._fix_amp: a falsy bound is replaced by the format's own; the
\* assignments cast the bound to the array's format
FixAmp(wave, lo, hi) ==
    LET mn == IF lo = 0 THEN AmpDen * min_amp ELSE lo
        mx == IF hi = 0 THEN AmpDen * max_amp ELSE hi
        up(x) == IF x > mx THEN AsType(wave.dtype, mx) ELSE x
        dn(x) == IF x < mn THEN AsType(wave.dtype, mn) ELSE x
    IN  Array(wave.dtype, [n \in DOMAIN wave.data |-> dn(up(wave.data[n]))])

\* Sounds.array_to_tuple
ArrayToTuple(wave) == wave.data

----------------------------------------------------------------------------
(* Sounds.cache_wave: the wrapper around every generator *)

\* the cache key f"{wave_type}|{freq}|{dur}|{self.dtype}"
CacheName(wave_type, freq, dur, d) ==
    wave_type \o "|" \o ToString(freq) \o "|" \o ToString(dur) \o "|" \o d

\* a wrapper without the frequency check
NoCheck(freq) == FALSE

\* the frequency check at the wrapper's entry
Rejected(freq) == freq < 0

\* a wrapper that never finds a key
NeverCached(cache, name) == FALSE

\* name in self.existed_notes.keys()
Cached(cache, name) == name \in DOMAIN cache

\* vol * np.array(self.existed_notes[name], dtype=self.dtype), vol a float
FromCache(shape, vol) ==
    Array(Scaled(dtype, TRUE), [n \in DOMAIN shape |-> Mul(vol, AsType(dtype, shape[n]))])

\* self.existed_notes[name] = self.array_to_tuple(temp)
Store(cache, name, temp) == SetItem(cache, name, ArrayToTuple(temp))

\* the wrapper on a given cache: the exception raised, the array returned, the
\* cache it leaves, and the number of generator calls made
WrapperResult(cache, wave_type, freq, dur, vol) ==
    LET name == CacheName(wave_type, freq, dur, dtype)
    IN  IF Rejected(freq)
        THEN [err |-> "TypeError", ret |-> None, cache |-> cache, calls |-> 0]
        ELSE IF Cached(cache, name)
        THEN [err |-> NoError, ret |-> Returned(FromCache(cache[name], vol)),
              cache |-> cache, calls |-> 0]
        ELSE LET \* self.max_amp is an int, vol * self.max_amp a float
                 temp == func(wave_type, freq, dur, AmpDen * max_amp, FALSE)
                 result == func(wave_type, freq, dur, vol * max_amp, TRUE)
             IN  [err |-> NoError, ret |-> Returned(FixAmp(result, 0 - vol, vol)),
                  cache |-> Store(cache, name, temp), calls |-> 2]

\* a call of the wrapper on the object; a miss is explored only while the
\* cache then holds at most MaxCache entries
wrapper(wave_type, freq, dur, vol) ==
    \E r \in {WrapperResult(existed_notes, wave_type, freq, dur, vol)} :
        /\ r.cache # existed_notes => Cardinality(DOMAIN r.cache) <= MaxCache
        /\ err' = r.err
        /\ ret' = r.ret
        /\ func_calls' = r.calls
        /\ existed_notes' = r.cache

----------------------------------------------------------------------------
(* Export: the .erfan container.  An array handed to the codec holds whole *)
(* numbers for the integer formats and, for float32, IEEE 754 values as    *)
(* <<sign, exponent field, fraction field>>.  Bytes are numbers 0..255.    *)

Min(a, b) == IF a < b THEN a ELSE b

\* the Python slice s[a:b] of a byte string
Slice(s, a, b) == SubSeq(s, a + 1, Min(b, Len(s)))

\* the Python slice s[a:]
SliceFrom(s, a) == SubSeq(s, a + 1, Len(s))

\* int.to_bytes(n, "little")
RECURSIVE ToBytes(_, _)
ToBytes(x, n) == IF n = 0 THEN <<>> ELSE <<x % 256>> \o ToBytes(x \div 256, n - 1)

\* int.from_bytes(b, "little")
RECURSIVE FromBytes(_)
FromBytes(b) == IF b = <<>> THEN 0 ELSE b[1] + 256 * FromBytes(Tail(b))

\* the size in bytes of one item of a format
ItemSize(d) == IF d = "uint8" THEN 1 ELSE IF d = "int16" THEN 2 ELSE 4

\* the bytes of one item in memory (little-endian)
ItemBytes(d, x) ==
    IF d = "float32"
    THEN <<x[3] % 256, (x[3] \div 256) % 256,
           (x[2] % 2) * 128 + x[3] \div 65536, x[1] * 128 + x[2] \div 2>>
    ELSE ToBytes(x, ItemSize(d))

\* one item read back from its bytes
ItemFromBytes(d, b) ==
    IF d = "float32"
    THEN <<b[4] \div 128, (b[4] % 128) * 2 + b[3] \div 128,
           (b[3] % 128) * 65536 + b[2] * 256 + b[1]>>
    ELSE IF d = "int16"
    THEN LET n == FromBytes(b) IN IF n >= 2^15 THEN n - 2^16 ELSE n
    ELSE FromBytes(b)

\* ndarray.tobytes()
RECURSIVE ToBytesArray(_, _)
ToBytesArray(d, data) ==
    IF data = <<>> THEN <<>>
    ELSE ItemBytes(d, Head(data)) \o ToBytesArray(d, Tail(data))

\* the items of np.frombuffer(b, d), for a length that is a multiple of the item size
RECURSIVE Items(_, _)
Items(d, b) ==
    IF b = <<>> THEN <<>>
    ELSE <<ItemFromBytes(d, SubSeq(b, 1, ItemSize(d)))>> \o Items(d, SliceFrom(b, ItemSize(d)))

\* np.frombuffer(b, d): the array, or the exception raised
FromBuffer(b, d) ==
    IF d \notin {"uint8", "int16", "float32"}
    THEN [err |-> "TypeError", array |-> <<>>]
    ELSE IF Len(b) % ItemSize(d) # 0
    THEN [err |-> "ValueError", array |-> <<>>]
    ELSE [err |-> NoError, array |-> Array(d, Items(d, b))]

IsBytes(buffer) == buffer.type = "bytes"
Bytes(b) == [type |-> "bytes", data |-> b]

\* the if/elif chain of export_to_erfan: the format code of an array, 0 for none
AudioFormat(d) ==
    IF d = "uint8" THEN 1
    ELSE IF d = "int16" THEN 2
    ELSE IF d = "int24" THEN 3
    ELSE IF d = "float32" THEN 4
    ELSE 0

\* the format code export_to_erfan has bound when it opens the file: none (0)
\* for a byte string, which skips the if/elif chain
BoundFormat(buffer) == IF IsBytes(buffer) THEN 0 ELSE AudioFormat(buffer.dtype)

\* Export.export_to_erfan: the file it leaves and the exception raised; the
\* dtype argument is overwritten for an array and never read for a byte string
ExportResult(old, buffer, sample_rate, dtype_arg, channels) ==
    IF ~IsBytes(buffer) /\ AudioFormat(buffer.dtype) = 0
    THEN [disk |-> old, err |-> "ValueError"]
    ELSE IF BoundFormat(buffer) = 0
    THEN [disk |-> ToBytes(sample_rate, 4), err |-> "UnboundLocalError"]
    ELSE [disk |-> ToBytes(sample_rate, 4) \o ToBytes(BoundFormat(buffer), 2)
                   \o ToBytes(channels, 2)
                   \o (IF IsBytes(buffer) THEN buffer.data
                       ELSE ToBytesArray(buffer.dtype, buffer.data)),
          err |-> NoError]

\* Export.wav_to_erfan: the header fields of the .wav file are copied
WavResult(wav) ==
    ToBytes(wav.sample_rate, 4) \o ToBytes(wav.dtype, 2) \o ToBytes(wav.n_channels, 2)
    \o wav.data

\* Export.get_sampwidth_from_int
SampwidthFromInt(n) ==
    IF ~(0 < n /\ n < 5) THEN [err |-> "TypeError", width |-> ""]
    ELSE [err |-> NoError,
          width |-> IF n = 1 THEN "uint8" ELSE IF n = 2 THEN "int16"
                    ELSE IF n = 3 THEN "int24" ELSE "float32"]

\* pyaudio's get_format_from_width accepts the widths 1, 2, 3 and 4
ValidWidth(n) == n \in 1..4

\* Export.read_from_erfan: the array returned, the stream opened, the exception raised
ReadResult(data, old_stream) ==
    LET sample_rate == FromBytes(Slice(data, 0, 4))
        sampwidth == FromBytes(Slice(data, 4, 6))
        channels == FromBytes(Slice(data, 6, 8))
        opened == [width |-> sampwidth, channels |-> channels, rate |-> sample_rate]
        name == SampwidthFromInt(sampwidth)
        arr == FromBuffer(SliceFrom(data, 8), name.width)
    IN  IF ~ValidWidth(sampwidth)
        THEN [ret |-> None, stream |-> old_stream, err |-> "ValueError"]
        ELSE IF name.err # NoError
        THEN [ret |-> None, stream |-> opened, err |-> name.err]
        ELSE IF arr.err # NoError
        THEN [ret |-> None, stream |-> opened, err |-> arr.err]
        ELSE [ret |-> Returned(arr.array), stream |-> opened, err |-> NoError]

\* the match statement of get_file_data: the format of a format code
MatchDtype(dtypen) ==
    IF dtypen = 1 THEN "uint8"
    ELSE IF dtypen = 2 THEN "int16"
    ELSE IF dtypen = 4 THEN "float32"
    ELSE "float32"

\* Music.get_file_data on an .erfan file: (data, sample_rate), or the exception raised
FileData(data) ==
    LET sample_rate == FromBytes(Slice(data, 0, 4))
        dtypen == FromBytes(Slice(data, 4, 6))
        arr == FromBuffer(SliceFrom(data, 8), MatchDtype(dtypen))
    IN  IF arr.err # NoError THEN [ret |-> None, err |-> arr.err]
        ELSE [ret |-> Returned(<<arr.array, sample_rate>>), err |-> NoError]

\* data.ndim of an array np.frombuffer made: one dimension
Ndim(array) == 1

----------------------------------------------------------------------------
(* Export: float2pcm and pcm2float.  A sample of an array of the caller is *)
(* a number in units of 1/AmpDen (an integer sample n is AmpDen * n).      *)
(* What pcm2float computes is held as a float m * 2^e, <<m, e>> as a       *)
(* record, because np.finfo(np.float32).min is far outside the integers.   *)

Abs(n) == IF n < 0 THEN 0 - n ELSE n

Flt(m, e) == [m |-> m, e |-> e]

\* a + b in float32: an addend below half a unit in the last place of a
\* 24-bit operand is absorbed; otherwise the sum is exact (it fits 24 bits
\* for every operand the calls of this model produce)
FAdd(a, b) ==
    IF a.m = 0 THEN b
    ELSE IF b.m = 0 THEN a
    ELSE IF Abs(a.m) >= 2^23 /\ a.e - b.e >= 25 /\ Abs(b.m) < 2^24 THEN a
    ELSE IF Abs(b.m) >= 2^23 /\ b.e - a.e >= 25 /\ Abs(a.m) < 2^24 THEN b
    ELSE IF a.e >= b.e THEN Flt(a.m * 2^(a.e - b.e) + b.m, b.e)
    ELSE Flt(a.m + b.m * 2^(b.e - a.e), a.e)

FSub(a, b) == FAdd(a, Flt(0 - b.m, b.e))

\* np.iinfo(dtype).bits
Bits(d) == IF d = "int16" THEN 16 ELSE 8


\* .clip(lo, hi) of one value
Clip(x, lo, hi) == IF x < lo THEN lo ELSE IF x > hi THEN hi ELSE x

\* Export.float2pcm: the array returned, or the exception raised
Float2Pcm(sig, d) ==
    IF sig.dtype \notin {"float32", "float64"} THEN [err |-> "TypeError", ret |-> None]
    ELSE IF ~IntKind(d) THEN [err |-> "TypeError", ret |-> None]
    ELSE LET abs_max == 2^(Bits(d) - 1)
             offset == IMin(d) + abs_max
         IN  [err |-> NoError,
              ret |-> Returned(Array(d,
                  [n \in DOMAIN sig.data |->
                      AsType(d, Clip(sig.data[n] * abs_max + AmpDen * offset,
                                     AmpDen * IMin(d), AmpDen * IMax(d)))]))]

\* np.finfo(np.float32): .bits and .min, -(2 - 2^-23) * 2^127
FInfoBits == 2^5
FInfoMin == Flt(0 - (2^24 - 1), 104)

\* a float32 array whose samples are held as floats m * 2^e, for values the
\* fixed-point samples of Array cannot hold
FloatArray(floats) == [type |-> "ndarray", dtype |-> "float32", floats |-> floats]

\* Export.pcm2float: the array returned, or the exception raised.  abs_max and
\* offset are taken from np.finfo(np.float32)
Pcm2Float(sig) ==
    IF ~IntKind(sig.dtype) THEN [err |-> "TypeError", ret |-> None]
    ELSE LET abs_max == Flt(1, FInfoBits - 1)
             offset == FAdd(FInfoMin, abs_max)
             div(y) == Flt(y.m, y.e - (FInfoBits - 1))
         IN  [err |-> NoError,
              ret |-> Returned(FloatArray(
                  [n \in DOMAIN sig.data |->
                      div(FSub(Flt(sig.data[n] \div AmpDen, 0), offset))]))]

----------------------------------------------------------------------------
(* Sounds: fades *)

\* (1 - cos(linspace(0, pi, fade_len))) * 0.5 for the lengths the model uses:
\* the cosines of 0, pi/3, pi/2, 2pi/3 and pi
Ramp(fade_len) ==
    IF fade_len = 0 THEN <<>>
    ELSE IF fade_len = 1 THEN <<0>>
    ELSE IF fade_len = 2 THEN <<0, AmpDen>>
    ELSE IF fade_len = 3 THEN <<0, AmpDen \div 2, AmpDen>>
    ELSE <<0, AmpDen \div 4, 3 * (AmpDen \div 4), AmpDen>>

\* Sounds._generate_fade_buffer: a dtype object is falsy (its len() is 0), so
\* the ramp is cast to the object's format, whatever format is passed
FadeBuffer(fade_len, d) ==
    [n \in 1..fade_len |-> AsType(dtype, Ramp(fade_len)[n])]

\* np.flip
Flip(seq) == [n \in DOMAIN seq |-> seq[Len(seq) + 1 - n]]

\* whether a *= b can be cast back into a's format ('same_kind')
SameKind(a, b) == ~(IntKind(a) /\ ~IntKind(b))

\* whether an operand of n items broadcasts into an output of k items
Broadcasts(n, k) == n = k \/ n = 1

\* buffer[from+1 .. from+k] *= fade, in place: the array left and the exception raised
TimesInPlace(buffer, from, k, fade) ==
    IF ~Broadcasts(Len(fade), k) THEN [err |-> "ValueError", buffer |-> buffer]
    ELSE IF ~SameKind(buffer.dtype, dtype) THEN [err |-> "TypeError", buffer |-> buffer]
    ELSE [err |-> NoError,
          buffer |-> Array(buffer.dtype,
              [n \in DOMAIN buffer.data |->
                  IF n > from /\ n <= from + k
                  THEN AsType(buffer.dtype, Mul(buffer.data[n], fade[n - from]))
                  ELSE buffer.data[n]])]

\* Sounds.fade_in: buffer[:fadein_len] is at most the whole buffer
FadeIn(buffer, fadein_len) ==
    TimesInPlace(buffer, 0, Min(fadein_len, Len(buffer.data)),
                 FadeBuffer(fadein_len, buffer.dtype))

\* Sounds.fade_out: buffer[-fadeout_len:] is the whole buffer for a length of
\* 0 or above the buffer's
FadeOut(buffer, fadeout_len) ==
    LET k == IF fadeout_len = 0 THEN Len(buffer.data)
             ELSE Min(fadeout_len, Len(buffer.data))
    IN  TimesInPlace(buffer, Len(buffer.data) - k, k,
                     Flip(FadeBuffer(fadeout_len, buffer.dtype)))

----------------------------------------------------------------------------
(* Music: mixing *)

\* the format of a + b
Promote(a, b) ==
    IF a = b THEN a
    ELSE IF "float64" \in {a, b} THEN "float64"
    ELSE IF "float32" \in {a, b} THEN "float32"
    ELSE "int16"

\* a[:s] + b[:s]
Plus(a, b, s) ==
    Array(Promote(a.dtype, b.dtype),
          [n \in 1..s |-> Wrap(Promote(a.dtype, b.dtype), a.data[n] + b.data[n])])

\* array /= k, in place: true division gives floats, which an integer array does not take
DivideInPlace(array, k) ==
    IF IntKind(array.dtype) THEN [err |-> "TypeError", array |-> array]
    ELSE [err |-> NoError,
          array |-> Array(array.dtype, [n \in DOMAIN array.data |-> array.data[n] \div k])]

\* Music.add_buffers: the array returned, or the exception raised
AddBuffers(a, b, keep_volume) ==
    LET s == Min(Len(a.data), Len(b.data))
    IN  IF ~keep_volume THEN [err |-> NoError, ret |-> Returned(Plus(a, b, s))]
        ELSE \* result /= 2
             LET r == DivideInPlace(Plus(a, b, s), 2)
             IN  IF r.err # NoError THEN [err |-> r.err, ret |-> None]
                 ELSE [err |-> NoError, ret |-> Returned(r.array)]

\* the first s items of an array replaced, the rest kept: a write through the view array[:s]
Through(array, s, data) ==
    Array(array.dtype, [n \in DOMAIN array.data |-> IF n <= s THEN data[n] ELSE array.data[n]])

\* s_bufs += buffer[:s] for every buffer after the first, s_bufs being the
\* view buffers[0][:s]: the first buffer as the loop leaves it, and the exception raised
RECURSIVE PlusLoop(_, _, _, _)
PlusLoop(first, buffers, s, k) ==
    IF k > Len(buffers) THEN [err |-> NoError, first |-> first]
    ELSE IF ~SameKind(first.dtype, buffers[k].dtype)
    THEN [err |-> "TypeError", first |-> first]
    ELSE PlusLoop(Through(first, s,
                     [n \in 1..s |-> Wrap(first.dtype, first.data[n] + buffers[k].data[n])]),
                  buffers, s, k + 1)

\* the size of the shortest buffer
RECURSIVE Shortest(_, _)
Shortest(buffers, k) ==
    IF k = Len(buffers) THEN Len(buffers[k].data)
    ELSE Min(Len(buffers[k].data), Shortest(buffers, k + 1))

\* Music.add_multiple_buffers: the array returned, the caller's first buffer
\* as the call leaves it, and the exception raised
AddMultipleBuffers(buffers, keep_volume) ==
    LET s == Shortest(buffers, 1)
        summed == PlusLoop(buffers[1], buffers, s, 2)
        \* s_bufs /= len(buffers)
        divided == DivideInPlace(Array(summed.first.dtype, SubSeq(summed.first.data, 1, s)),
                                 Len(buffers))
        view(first) == Array(first.dtype, SubSeq(first.data, 1, s))
    IN  IF summed.err # NoError
        THEN [err |-> summed.err, ret |-> None, first |-> summed.first]
        ELSE IF ~keep_volume
        THEN [err |-> NoError, ret |-> Returned(view(summed.first)), first |-> summed.first]
        ELSE IF divided.err # NoError
        THEN [err |-> divided.err, ret |-> None, first |-> summed.first]
        ELSE [err |-> NoError, ret |-> Returned(divided.array),
              first |-> Through(summed.first, s, divided.array.data)]

----------------------------------------------------------------------------
(* Music: notes and chords *)

\* Music.tempo, beats to the minute
tempo == 60

\* Music.DEFAULT_DURATION
DEFAULT_DURATION == DurDen

\* a duration argument: a number of beats, or a string of seconds such as "1s"
Beats(n) == [unit |-> "beats", n |-> n]
Secs(n) == [unit |-> "s", n |-> n]

\* Music.fix_duration: seconds, in 1/DurDen
FixDuration(duration) ==
    IF duration = Beats(0) THEN DEFAULT_DURATION
    ELSE IF duration.unit # "s" THEN (60 * duration.n * DurDen) \div tempo
    ELSE duration.n * DurDen

\* a fix_volume without the range check
AnyVolume(volume) == FALSE

\* the range check of Music.fix_volume; a falsy volume does not reach it
VolumeRejected(volume) ==
    volume # 0 /\ (volume > AmpDen * max_amp \/ volume < AmpDen * min_amp)

\* Music.fix_volume, for a volume that passes
FixVolume(volume) == IF volume = 0 THEN (AmpDen * max_amp) \div 2 ELSE volume

\* a note argument: a number, or a name
Number(f) == [digit |-> TRUE, f |-> f, name |-> ""]
Name(name) == [digit |-> FALSE, f |-> 0, name |-> name]

\* Music.generate_note_buffer on a given cache.  The frequencies of the
\* named notes the model uses are whole numbers of Hz
NoteResult(cache, note, wave_type, duration, volume) ==
    IF VolumeRejected(volume)
    THEN [err |-> "TypeError", ret |-> None, cache |-> cache, calls |-> 0]
    ELSE IF ~note.digit /\ note.name \notin DOMAIN _NOTES
    THEN [err |-> "KeyError", ret |-> None, cache |-> cache, calls |-> 0]
    ELSE WrapperResult(cache, wave_type,
                       IF note.digit THEN note.f ELSE _NOTES[note.name] \div FreqScale,
                       FixDuration(duration), FixVolume(volume))

\* buf += other, in place
PlusInPlace(buf, other) ==
    IF ~Broadcasts(Len(other.data), Len(buf.data))
    THEN [err |-> "ValueError", array |-> buf]
    ELSE IF ~SameKind(buf.dtype, other.dtype)
    THEN [err |-> "TypeError", array |-> buf]
    ELSE [err |-> NoError,
          array |-> Array(buf.dtype,
              [n \in DOMAIN buf.data |->
                  Wrap(buf.dtype, buf.data[n]
                         + other.data[IF Len(other.data) = 1 THEN 1 ELSE n])])]

\* buf / len(notes): a new array of floats
Over(buf, k) ==
    Array(Scaled(buf.dtype, TRUE), [n \in DOMAIN buf.data |-> buf.data[n] \div k])

\* the loop of Music.generate_chord_buffer from note k on: buf so far, the
\* cache so far and the generator calls so far
RECURSIVE ChordLoop(_, _, _, _, _, _, _, _)
RECURSIVE ChordStep(_, _, _, _, _, _, _, _)
RECURSIVE ChordSum(_, _, _, _, _, _, _, _)

\* buf += the buffer of note k, r being what generate_note_buffer gave for it
ChordSum(sum, r, calls, notes, k, wave_type, duration, volume) ==
    IF sum.err # NoError
    THEN [err |-> sum.err, ret |-> None, cache |-> r.cache, calls |-> calls + r.calls]
    ELSE ChordLoop(sum.array, r.cache, calls + r.calls, notes, k + 1,
                   wave_type, duration, volume)

ChordStep(buf, r, calls, notes, k, wave_type, duration, volume) ==
    IF r.err # NoError
    THEN [err |-> r.err, ret |-> None, cache |-> r.cache, calls |-> calls + r.calls]
    ELSE ChordSum(PlusInPlace(buf, r.ret.value), r, calls, notes, k,
                  wave_type, duration, volume)

ChordLoop(buf, cache, calls, notes, k, wave_type, duration, volume) ==
    IF k > Len(notes)
    THEN [err |-> NoError, ret |-> Returned(Over(buf, Len(notes))),
          cache |-> cache, calls |-> calls]
    ELSE ChordStep(buf, NoteResult(cache, notes[k], wave_type, duration, volume),
                   calls, notes, k, wave_type, duration, volume)

\* the loop entered with the buffer of the first note
ChordFrom(r, notes, wave_type, duration, volume) ==
    IF r.err # NoError THEN r
    ELSE ChordLoop(r.ret.value, r.cache, r.calls, notes, 2, wave_type, duration, volume)

\* Music.generate_chord_buffer on a given cache
ChordResult(cache, notes, wave_type, duration, volume) ==
    ChordFrom(NoteResult(cache, notes[1], wave_type, duration, volume),
              notes, wave_type, duration, volume)

----------------------------------------------------------------------------
(* Music.play_buffer *)

\* type(wave)
type(wave) == wave.type

\* ndarray.tobytes
tobytes(wave) == ToBytesArray(wave.dtype, wave.data)

\* the stream writes of the for loop: chunk i is wave[i*chunk : (i+1)*chunk]
Chunks(wave, chunk, n_chunks) ==
    [i \in 1..n_chunks |-> Slice(wave, (i - 1) * chunk, i * chunk)]

\* Music.play_buffer on a byte string: the writes made, and the exception
\* raised.  The loop variable i is bound by the loop alone, so the last write
\* has no i to read when the loop has not run
PlayResult(wave, chunk) ==
    LET size == Len(wave)
        n_chunks == size \div chunk
        short == IF size < chunk THEN <<wave>> ELSE <<>>
    IN  IF n_chunks = 0
        THEN [writes |-> short, err |-> "UnboundLocalError"]
        ELSE [writes |-> short \o Chunks(wave, chunk, n_chunks)
                         \o <<SliceFrom(wave, n_chunks * chunk)>>,
              err |-> NoError]

----------------------------------------------------------------------------
(* The inputs the calls are tried with *)

\* reference frequencies passed to assign_middle_a; 0 stands for no argument
Refs == {0, Hz(450)}
\* reference frequencies the object is constructed with under SpecTuning
ConstructorRefs == {Hz(6), Hz(15), Hz(440)}
Freqs == {0 - 1, 0, 1}
Durs == {DurDen}
Vols == {AmpDen \div 2, AmpDen}

F32(sign, exponent, fraction) == <<sign, exponent, fraction>>

Buffers ==
    { Array("int16", <<0, 16384, 0 - 16384, 32767>>),
      Array("int16", <<>>),
      Array("uint8", <<0, 255, 128>>),
      Array("float32", <<F32(0, 0, 0), F32(0, 126, 0), F32(1, 127, 0), F32(0, 127, 2^22 + 1)>>),
      Array("float64", <<0>>),
      Bytes(<<0, 0, 0, 64>>),
      Bytes(<<1, 2>>) }
DtypeArgs == {"float32"}
Rates == {48000, 44100}
WavRates == {44100}
Channels == {1, 2}

\* the arrays a caller holds: 0, 0.5, -1, 1 and 1, 1 and an empty one as
\* float32, and two int16 arrays
Held ==
    { Array("float32", <<0, AmpDen \div 2, 0 - AmpDen, AmpDen>>),
      Array("float32", <<AmpDen, AmpDen>>),
      Array("float32", <<>>),
      Array("int16", <<AmpDen * 7, 0 - AmpDen * 9, AmpDen>>),
      Array("int16", <<AmpDen * 3, AmpDen * 5>>) }

\* the integer arrays a caller holds
HeldPcm == {b \in Held : IntKind(b.dtype)}

\* the target formats float2pcm is called with
PcmDtypes == {"int16", "uint8", "float32"}

\* the oscillators, frequencies (Hz) and durations (1 s and 5/16 s) the
\* generators are compared on
Oscillators == WaveTypes \cup {"fast_saw"}
WaveFreqs == {1, 3}
WaveDurs == {DurDen, 5}

\* the notes, durations and volumes (default, 0.5 and 2) notes and chords are
\* asked for: two frequencies, a name of the table and a name that is in no table
NoteArgs == {Number(1), Number(3), Name("A4"), Name("H9")}
NoteWaves == {"sine", "fast_saw"}
NoteDurations == {Secs(1)}
NoteVolumes == {0, AmpDen \div 2, 2 * AmpDen}
Chords ==
    { <<Number(1), Number(1)>>, <<Number(1), Number(3)>>,
      <<Number(1), Name("A4"), Number(1)>>, <<Number(3), Name("H9")>> }
\* the formats notes are generated in
NoteDtypes == {"float32", "uint8"}

\* fade lengths, in samples
FadeLens == 0..4

\* the buffer lists add_multiple_buffers is called with
BufferLists == {<<a, b>> : a, b \in Held} \cup {<<a, b, a>> : a, b \in Held}

\* what play_buffer is called with: byte strings of 0, 3, 4 and 5 bytes and arrays
PlayWaves ==
    { Bytes(<<>>), Bytes(<<1, 2, 3>>), Bytes(<<1, 2, 3, 4>>), Bytes(<<1, 2, 3, 4, 5>>),
      Array("uint8", <<0, 255, 128>>), Array("int16", <<0, 16384>>) }

\* chunk sizes, in bytes
ChunkSizes == {2, 4}

\* the audio-format field of a .wav header: PCM, IEEE float, extensible
WavFormats == {1, 3, 65534}
Wavs == [sample_rate : WavRates, dtype : WavFormats, n_channels : Channels,
         data : {<<0, 0, 128, 63>>}]

NoExport == [buffer |-> Bytes(<<>>), sample_rate |-> 0, dtype |-> "", channels |-> 0,
             ok |-> FALSE]
NoStream == [width |-> 0, channels |-> 0, rate |-> 0]

----------------------------------------------------------------------------
(* The calls *)

\* Sounds.__init__, as Music.init calls it: an empty cache and float32
SoundsInit ==
    /\ existed_notes' = EmptyDict
    /\ dtype' = "float32"
    /\ min_amp' = MinAmp("float32")
    /\ max_amp' = MaxAmp("float32")

\* Music.init_output_stream with its defaults: a float32 stream
OutputStream == [width |-> 4, channels |-> 1, rate |-> default_sample_rate]

\* Music.init
init ==
    /\ Len(FULL_NOTE_NAMES) <= MaxNames
    /\ \E semi \in {SemiTone(TUNE)}, nn \in {NoteNamesResult(FULL_NOTE_NAMES, TUNE)},
          exponent \in {Exponent(MIDDLE_A)} :
       \E bass \in {FoldDown(MIDDLE_A, exponent)} :
       \E fr \in {FrequenciesResult(Obj(TUNE, bass, semi, exponent + 1, nn.names), _NOTES)} :
           /\ SoundsInit
           /\ SEMI_TONE' = semi
           /\ FULL_NOTE_NAMES' = nn.names
           /\ IF nn.err # NoError
              THEN /\ err' = nn.err
                   /\ UNCHANGED <<BASS_A, _hbl, _NOTES, stream>>
              ELSE /\ BASS_A' = bass
                   /\ _hbl' = exponent + 1
                   /\ _NOTES' = fr.notes
                   /\ err' = fr.err
                   /\ stream' = IF fr.err = NoError THEN OutputStream ELSE stream
    /\ ret' = None
    /\ func_calls' = 0
    /\ op' = "init"
    /\ UNCHANGED <<TUNE, MIDDLE_A, hostVars, codecVars>>

\* Music.generate_note_names
generate_note_names ==
    /\ Len(FULL_NOTE_NAMES) <= MaxNames
    /\ \E nn \in {NoteNamesResult(FULL_NOTE_NAMES, TUNE)} :
           /\ FULL_NOTE_NAMES' = nn.names
           /\ err' = nn.err
    /\ ret' = None
    /\ func_calls' = 0
    /\ op' = "generate_note_names"
    /\ UNCHANGED <<TUNE, MIDDLE_A, BASS_A, _hbl, SEMI_TONE, _NOTES, soundVars, hostVars,
                   codecVars, stream>>

\* Music.assign_middle_a
assign_middle_a(new_frequency) ==
    /\ LET middle_a == IF new_frequency # 0 THEN new_frequency ELSE MIDDLE_A
           exponent == Exponent(middle_a)
       IN  /\ MIDDLE_A' = middle_a
           /\ BASS_A' = FoldDown(middle_a, exponent)
           /\ _hbl' = exponent + 1
    /\ err' = NoError
    /\ ret' = None
    /\ func_calls' = 0
    /\ op' = "assign_middle_a"
    /\ UNCHANGED <<TUNE, SEMI_TONE, _NOTES, FULL_NOTE_NAMES, soundVars, hostVars,
                   codecVars, stream>>

\* Music.assign_frequencies
assign_frequencies ==
    /\ \E fr \in {FrequenciesResult(Obj(TUNE, BASS_A, SEMI_TONE, _hbl, FULL_NOTE_NAMES), _NOTES)} :
           /\ _NOTES' = fr.notes
           /\ err' = fr.err
    /\ ret' = None
    /\ func_calls' = 0
    /\ op' = "assign_frequencies"
    /\ UNCHANGED <<TUNE, MIDDLE_A, BASS_A, _hbl, SEMI_TONE, FULL_NOTE_NAMES, soundVars,
                   hostVars, codecVars, stream>>

\* Sounds.change_dtype
change_dtype(d) ==
    /\ dtype' = d
    /\ min_amp' = MinAmp(d)
    /\ max_amp' = MaxAmp(d)
    /\ err' = NoError
    /\ ret' = None
    /\ func_calls' = 0
    /\ op' = "change_dtype"
    /\ UNCHANGED <<musicVars, existed_notes, hostVars, codecVars, stream>>

\* a call of a cached oscillator (sine_wave, fast_square_wave,
\* fast_sawtooth_wave) with a float volume
wave(wave_type, freq, dur, vol) ==
    /\ wrapper(wave_type, freq, dur, vol)
    /\ op' = wave_type
    /\ UNCHANGED <<musicVars, dtype, min_amp, max_amp, hostVars, codecVars, stream>>

\* Export.export_to_erfan
export_to_erfan(buffer, sample_rate, dtype_arg, channels) ==
    /\ \E r \in {ExportResult(disk, buffer, sample_rate, dtype_arg, channels)} :
           /\ disk' = r.disk
           /\ err' = r.err
           /\ exported' = [buffer |-> buffer, sample_rate |-> sample_rate,
                           dtype |-> dtype_arg, channels |-> channels,
                           ok |-> r.err = NoError]
    /\ ret' = None
    /\ func_calls' = 0
    /\ op' = "export_to_erfan"
    /\ UNCHANGED <<musicVars, soundVars, hostVars, stream>>

\* Export.wav_to_erfan
wav_to_erfan(wav) ==
    /\ disk' = WavResult(wav)
    /\ exported' = NoExport
    /\ err' = NoError
    /\ ret' = None
    /\ func_calls' = 0
    /\ op' = "wav_to_erfan"
    /\ UNCHANGED <<musicVars, soundVars, hostVars, stream>>

\* Export.read_from_erfan
read_from_erfan ==
    /\ \E r \in {ReadResult(disk, stream)} :
           /\ ret' = r.ret
           /\ stream' = r.stream
           /\ err' = r.err
    /\ func_calls' = 0
    /\ op' = "read_from_erfan"
    /\ UNCHANGED <<musicVars, soundVars, hostVars, codecVars>>

\* Music.get_file_data on the .erfan file
get_file_data ==
    /\ \E r \in {FileData(disk)} :
           /\ ret' = r.ret
           /\ err' = r.err
    /\ func_calls' = 0
    /\ op' = "get_file_data"
    /\ UNCHANGED <<musicVars, soundVars, hostVars, codecVars, stream>>

----------------------------------------------------------------------------
(* Specifications *)

\* the concurrent callers, and a caller that is in no call
Threads == {"t1", "t2"}
Idle == [pc |-> "idle", wave_type |-> "", freq |-> 0, dur |-> 0, vol |-> 0,
         name |-> "", temp |-> None, result |-> None]

\* Export.float2pcm, on an array the caller holds
float2pcm(sig, d) ==
    /\ \E r \in {Float2Pcm(sig, d)} :
          /\ err' = r.err
          /\ ret' = r.ret
    /\ bufs' = <<sig>>
    /\ func_calls' = 0
    /\ op' = "float2pcm"
    /\ UNCHANGED <<musicVars, soundVars, cast, written, threads, stores, codecVars, stream>>

\* Export.pcm2float, on an array the caller holds
pcm2float(sig) ==
    /\ \E r \in {Pcm2Float(sig)} :
          /\ err' = r.err
          /\ ret' = r.ret
    /\ bufs' = <<sig>>
    /\ func_calls' = 0
    /\ op' = "pcm2float"
    /\ UNCHANGED <<musicVars, soundVars, cast, written, threads, stores, codecVars, stream>>

\* the end of a fade: the caller's array as the call left it, which is also
\* the object returned
Faded(r, name) ==
    /\ err' = r.err
    /\ ret' = IF r.err = NoError THEN Returned(r.buffer) ELSE None
    /\ bufs' = <<r.buffer>>
    /\ func_calls' = 0
    /\ op' = name
    /\ UNCHANGED <<musicVars, soundVars, cast, written, threads, stores, codecVars, stream>>

\* Sounds.fade_in
fade_in(buffer, fadein_len) == Faded(FadeIn(buffer, fadein_len), "fade_in")

\* Sounds.fade_out
fade_out(buffer, fadeout_len) == Faded(FadeOut(buffer, fadeout_len), "fade_out")

\* Music.add_buffers, called through the class
add_buffers(a, b, keep_volume) ==
    /\ \E r \in {AddBuffers(a, b, keep_volume)} :
          /\ err' = r.err
          /\ ret' = r.ret
    /\ bufs' = <<a, b>>
    /\ func_calls' = 0
    /\ op' = "add_buffers"
    /\ UNCHANGED <<musicVars, soundVars, cast, written, threads, stores, codecVars, stream>>

\* Music.add_multiple_buffers, called through the class
add_multiple_buffers(buffers, keep_volume) ==
    /\ \E r \in {AddMultipleBuffers(buffers, keep_volume)} :
          /\ err' = r.err
          /\ ret' = r.ret
          /\ bufs' = [n \in DOMAIN buffers |->
                        IF buffers[n] = buffers[1] THEN r.first ELSE buffers[n]]
    /\ func_calls' = 0
    /\ op' = "add_multiple_buffers"
    /\ UNCHANGED <<musicVars, soundVars, cast, written, threads, stores, codecVars, stream>>

\* Music.play_buffer: without an opened stream the first write raises
play_buffer(wave_arg, chunk) ==
    /\ \E r \in {PlayResult(IF type(wave_arg) # "bytes" THEN tobytes(wave_arg)
                             ELSE wave_arg.data, chunk)} :
          IF stream = NoStream
          THEN /\ err' = "AttributeError"
               /\ written' = <<>>
          ELSE /\ err' = r.err
               /\ written' = r.writes
    /\ ret' = None
    /\ func_calls' = 0
    /\ op' = "play_buffer"
    /\ UNCHANGED <<musicVars, soundVars, cast, bufs, threads, stores, codecVars, stream>>

\* the end of a note or chord call; a call is explored only while the cache
\* then holds at most MaxCache + 1 entries
NoteCallDone(r, name) ==
    /\ r.cache # existed_notes => Cardinality(DOMAIN r.cache) <= MaxCache + 1
    /\ err' = r.err
    /\ ret' = r.ret
    /\ func_calls' = r.calls
    /\ existed_notes' = r.cache
    /\ op' = name
    /\ UNCHANGED <<musicVars, dtype, min_amp, max_amp, hostVars, codecVars, stream>>

\* Music.generate_note_buffer
generate_note_buffer(note, wave_type, duration, volume) ==
    \E r \in {NoteResult(existed_notes, note, wave_type, duration, volume)} :
        NoteCallDone(r, "generate_note_buffer")

\* Music.generate_chord_buffer
generate_chord_buffer(notes, wave_type, duration, volume) ==
    \E r \in {ChordResult(existed_notes, notes, wave_type, duration, volume)} :
        NoteCallDone(r, "generate_chord_buffer")

\* what a step of a concurrent caller leaves alone
threadFrame == <<musicVars, dtype, min_amp, max_amp, cast, bufs, written, codecVars, stream>>

\* a thread calls a cached oscillator and passes the frequency check (lines 82-83)
enter(t, wave_type, freq, dur, vol) ==
    /\ threads[t].pc = "idle"
    /\ ~Rejected(freq)
    /\ threads' = [threads EXCEPT ![t] = [Idle EXCEPT !.pc = "lookup", !.wave_type = wave_type,
                                          !.freq = freq, !.dur = dur, !.vol = vol]]
    /\ UNCHANGED <<existed_notes, stores, ret, err, func_calls, op, threadFrame>>

\* lines 85-88: the key is built and looked up; a hit returns at once
lookup(t) ==
    /\ threads[t].pc = "lookup"
    /\ \E c \in {threads[t]} :
       \E name \in {CacheName(c.wave_type, c.freq, c.dur, dtype)} :
          IF Cached(existed_notes, name)
          THEN /\ threads' = [threads EXCEPT ![t] = Idle]
               /\ ret' = Returned(FromCache(existed_notes[name], c.vol))
               /\ err' = NoError
               /\ func_calls' = 0
               /\ op' = c.wave_type
          ELSE /\ threads' = [threads EXCEPT ![t] = [c EXCEPT !.pc = "generate", !.name = name]]
               /\ UNCHANGED <<ret, err, func_calls, op>>
    /\ UNCHANGED <<existed_notes, stores, threadFrame>>

\* lines 90-92: the generator is called twice and the result clamped
generate(t) ==
    /\ threads[t].pc = "generate"
    /\ \E c \in {threads[t]} :
          threads' = [threads EXCEPT ![t] =
              [c EXCEPT !.pc = "store",
                        !.temp = Returned(func(c.wave_type, c.freq, c.dur, AmpDen * max_amp, FALSE)),
                        !.result = Returned(FixAmp(func(c.wave_type, c.freq, c.dur,
                                                        c.vol * max_amp, TRUE),
                                                   0 - c.vol, c.vol))]]
    /\ func_calls' = 2
    /\ UNCHANGED <<existed_notes, stores, ret, err, op, threadFrame>>

\* lines 93-95: the shape is stored under the key and the result returned
store(t) ==
    /\ threads[t].pc = "store"
    /\ \E c \in {threads[t]} :
          /\ existed_notes' = Store(existed_notes, c.name, c.temp.value)
          /\ stores' = SetItem(stores, c.name,
                                IF c.name \in DOMAIN stores THEN stores[c.name] + 1 ELSE 1)
          /\ ret' = c.result
          /\ op' = c.wave_type
    /\ threads' = [threads EXCEPT ![t] = Idle]
    /\ err' = NoError
    /\ UNCHANGED <<func_calls, threadFrame>>

\* what a build may do with an out-of-range cast
CastModes == {"wrap", "saturate"}

\* Music.__init__ with the given reference and tuning, on a build with the given cast
Constructed(middle_a, tune, c) ==
    /\ TUNE = tune
    /\ MIDDLE_A = middle_a
    /\ BASS_A = Unset
    /\ _hbl = Unset
    /\ SEMI_TONE = Unset
    /\ _NOTES = EmptyDict
    /\ FULL_NOTE_NAMES = <<>>
    /\ dtype = "float32"
    /\ min_amp = MinAmp("float32")
    /\ max_amp = MaxAmp("float32")
    /\ existed_notes = EmptyDict
    /\ ret = None
    /\ err = NoError
    /\ func_calls = 0
    /\ cast = c
    /\ bufs = <<>>
    /\ written = <<>>
    /\ threads = [t \in Threads |-> Idle]
    /\ stores = EmptyDict
    /\ disk = <<>>
    /\ stream = NoStream
    /\ exported = NoExport
    /\ op = "__init__"

\* Music(): the defaults, 440 Hz and 12 tones
Init == \E c \in CastModes : Constructed(Hz(440), 12, c)

TableNext ==
    \/ init
    \/ generate_note_names
    \/ \E new_frequency \in Refs : assign_middle_a(new_frequency)
    \/ assign_frequencies

Next ==
    \/ TableNext
    \/ \E d \in SpecDtypes : change_dtype(d)
    \/ \E wave_type \in WaveTypes, freq \in Freqs, dur \in Durs, vol \in Vols :
          wave(wave_type, freq, dur, vol)

Spec == Init /\ [][Next]_vars

\* Music(middle_a, tune=tune) for every tuning up to MaxTune
\* (no call of this specification casts a sample)
InitTuning ==
    \E middle_a \in ConstructorRefs, tune \in 1..MaxTune : Constructed(middle_a, tune, "wrap")

SpecTuning == InitTuning /\ [][TableNext]_vars

\* Music() (no call of this specification casts a sample)
InitCodec == Constructed(Hz(440), 12, "wrap")

NextCodec ==
    \/ \E buffer \in Buffers, sample_rate \in Rates, dtype_arg \in DtypeArgs,
          channels \in Channels :
          export_to_erfan(buffer, sample_rate, dtype_arg, channels)
    \/ \E wav \in Wavs : wav_to_erfan(wav)
    \/ read_from_erfan
    \/ get_file_data

SpecCodec == InitCodec /\ [][NextCodec]_vars

\* a caller converting, fading, mixing and playing the arrays it holds; init
\* is called on the new object
NextBuffers ==
    \/ op = "__init__" /\ init
    \/ \E sig \in Held, d \in PcmDtypes : float2pcm(sig, d)
    \/ \E sig \in HeldPcm : pcm2float(sig)
    \* the array the last call returned, passed on
    \/ ret.returned /\ pcm2float(ret.value)
    \/ \E buffer \in Held, fadein_len \in FadeLens : fade_in(buffer, fadein_len)
    \/ \E buffer \in Held, fadeout_len \in FadeLens : fade_out(buffer, fadeout_len)
    \/ \E a \in Held, b \in Held, keep_volume \in BOOLEAN : add_buffers(a, b, keep_volume)
    \/ \E buffers \in BufferLists, keep_volume \in BOOLEAN :
          add_multiple_buffers(buffers, keep_volume)
    \/ \E wave_arg \in PlayWaves, chunk \in ChunkSizes : play_buffer(wave_arg, chunk)

SpecBuffers == InitCodec /\ [][NextBuffers]_vars

\* the cached oscillators in every format
NextWave ==
    \/ \E d \in Dtypes : change_dtype(d)
    \/ \E wave_type \in Oscillators, freq \in WaveFreqs, dur \in WaveDurs, vol \in Vols :
          wave(wave_type, freq, dur, vol)

SpecWave == Init /\ [][NextWave]_vars

\* notes and chords, in float32 and uint8; init is called on the new object
NextNotes ==
    \/ op = "__init__" /\ init
    \/ \E d \in NoteDtypes : change_dtype(d)
    \/ \E note \in NoteArgs, wave_type \in NoteWaves, duration \in NoteDurations,
          volume \in NoteVolumes : generate_note_buffer(note, wave_type, duration, volume)
    \/ \E notes \in Chords, wave_type \in NoteWaves, duration \in NoteDurations,
          volume \in NoteVolumes : generate_chord_buffer(notes, wave_type, duration, volume)

SpecNotes == Init /\ [][NextNotes]_vars

\* two threads calling the cached oscillators of one object, for 1 Hz and 1 s
NextThreads ==
    \E t \in Threads :
        \/ \E wave_type \in WaveTypes, vol \in Vols : enter(t, wave_type, 1, DurDen, vol)
        \/ lookup(t)
        \/ generate(t)
        \/ store(t)

SpecThreads == InitCodec /\ [][NextThreads]_vars

----------------------------------------------------------------------------
(* Wave cache *)

IsWave(o) == o \in WaveTypes

\* C1: the wave cache is insert-only: no call removes an entry or changes the
\* shape stored under a key.
C1_InsertOnly ==
    [][\A name \in DOMAIN existed_notes :
          /\ name \in DOMAIN existed_notes'
          /\ existed_notes'[name] = existed_notes[name]]_vars

\* C2: a request whose key is already stored (the second of two equal
\* requests) is answered from the stored shape: the generator is not called,
\* the cache is unchanged, and the buffer is vol times the stored shape.
C2_SecondCallFromCache ==
    [][\A wave_type \in WaveTypes, freq \in Freqs, dur \in Durs, vol \in Vols :
          (/\ wave(wave_type, freq, dur, vol)
           /\ CacheName(wave_type, freq, dur, dtype) \in DOMAIN existed_notes)
          => LET shape == existed_notes[CacheName(wave_type, freq, dur, dtype)]
             IN  /\ func_calls' = 0
                 /\ existed_notes' = existed_notes
                 /\ err' = NoError
                 /\ ret'.returned
                 /\ DOMAIN ret'.value.data = DOMAIN shape
                 /\ \A n \in DOMAIN shape :
                       AmpDen * ret'.value.data[n] = vol * shape[n]]_vars

\* a cached oscillator has answered a request from the cache
C2_Witness == IsWave(op) /\ err = NoError /\ ret.returned /\ func_calls = 0

\* what a rejected call leaves: an error, no generator call, no buffer, the cache as it was
RejectedCall ==
    /\ err' # NoError
    /\ func_calls' = 0
    /\ ret' = None
    /\ existed_notes' = existed_notes

----------------------------------------------------------------------------
(* Note table *)

\* the table a generation from an empty table gives for the object's configuration
FreshTable ==
    FrequenciesResult(Obj(TUNE, BASS_A, SEMI_TONE, _hbl, FULL_NOTE_NAMES), EmptyDict).notes

Generated == op \in {"init", "assign_frequencies"} /\ err = NoError

\* C4: after a generation the table holds exactly the entries of the current
\* configuration: none of an earlier configuration survives.
C4_TableReplaced == Generated => _NOTES = FreshTable

\* what a generation for the object's configuration computes last
LastFrequency ==
    FrequenciesResult(Obj(TUNE, BASS_A, SEMI_TONE, _hbl, FULL_NOTE_NAMES), EmptyDict).frequency

\* C5: every frequency in the table lies in 20 Hz..20,000 Hz, and a
\* generation ends with the first computed frequency above 20,000 Hz.
C5_TableInRange ==
    /\ \A name \in DOMAIN _NOTES : _NOTES[name] >= Hz(20) /\ _NOTES[name] <= Hz(20000)
    /\ Generated => (LastFrequency > Hz(20000) /\ LastFrequency <= 2 * Hz(20000))

\* a table generated from a base below 20 Hz: entries were skipped, the rest stored
C5_Witness ==
    /\ Generated
    /\ BASS_A < Hz(20)
    /\ _NOTES # EmptyDict
    /\ \E name \in DOMAIN _NOTES : _NOTES[name] > Hz(10000)

\* C6: with 440 Hz and 12 tones the table's "A4" is 440 Hz exactly: the base
\* is 440 halved into 20..40 Hz (27.5 Hz), and the label offset puts the
\* reference's octave at 4.
C6_A4Is440 ==
    (Generated /\ MIDDLE_A = Hz(440) /\ TUNE = 12)
    => /\ "A4" \in DOMAIN _NOTES
       /\ _NOTES["A4"] = Hz(440)
       /\ BASS_A >= Hz(20) /\ BASS_A < Hz(40)
       /\ 2 * BASS_A = Hz(55)
       /\ _NOTES["A0"] = BASS_A

C6_Witness == Generated /\ MIDDLE_A = Hz(440) /\ TUNE = 12 /\ op = "assign_frequencies"

\* the names the 26 letters yield: a letter and its sharp, B and E without one
NameCount == 2 * Len(NOTE_NAMES) - 2

\* the first TUNE names are there and differ from one another
DistinctNames ==
    /\ Len(FULL_NOTE_NAMES) >= TUNE
    /\ Cardinality({FULL_NOTE_NAMES[i] : i \in 1..TUNE}) = TUNE

NamesAndTable == op \in {"init", "generate_note_names", "assign_frequencies"}

\* C7 as stated: for every tones_per_octave >= 1 the note names and the table
\* are generated without an error, each step with a name of its own.
C7_AnyTuning == (op = "init") => (err = NoError /\ DistinctNames)

\* C7 as amended: on an object constructed with 1..50 tones per octave (the
\* 26 letters yield 50 names) the names and the table are generated without
\* an error, each step with a name of its own; with more tones init raises.
C7_UpToNameCount ==
    /\ (NamesAndTable /\ TUNE <= NameCount /\ (op = "assign_frequencies" => SEMI_TONE # Unset))
       => (err = NoError /\ (op # "generate_note_names" => DistinctNames))
    /\ (op = "init" /\ TUNE > NameCount) => err \in {"IndexError", "Exception"}

\* a tuning other than 12 whose name loop runs past TUNE, generated
C7_Witness ==
    /\ op = "init" /\ err = NoError /\ TUNE = 4
    /\ Len(FULL_NOTE_NAMES) > TUNE
    /\ Cardinality(DOMAIN _NOTES) > 12

----------------------------------------------------------------------------
(* Container *)

\* the buffers export_to_erfan accepts: a uint8, int16 or float32 array, or bytes
Accepted(buffer) == IsBytes(buffer) \/ buffer.dtype \in {"uint8", "int16", "float32"}

\* the format code of a format name
FormatCode(d) ==
    IF d = "uint8" THEN 1 ELSE IF d = "int16" THEN 2 ELSE IF d = "int24" THEN 3 ELSE 4

Payload(buffer) ==
    IF IsBytes(buffer) THEN buffer.data ELSE ToBytesArray(buffer.dtype, buffer.data)

\* C8: export writes 8 header bytes (rate u32, format code u16, channel count
\* u16, little-endian) and then the payload, for an array as for a byte
\* string; 48000 Hz, int16, 1 channel gives 80 BB 00 00 02 00 01 00.
C8_HeaderThenPayload ==
    (op = "export_to_erfan" /\ Accepted(exported.buffer))
    => /\ err = NoError
       /\ Len(disk) = 8 + Len(Payload(exported.buffer))
       /\ FromBytes(Slice(disk, 0, 4)) = exported.sample_rate
       /\ FromBytes(Slice(disk, 4, 6)) =
             FormatCode(IF IsBytes(exported.buffer) THEN exported.dtype
                        ELSE exported.buffer.dtype)
       /\ FromBytes(Slice(disk, 6, 8)) = exported.channels
       /\ SliceFrom(disk, 8) = Payload(exported.buffer)
       /\ (/\ exported.sample_rate = 48000 /\ exported.channels = 1
           /\ ~IsBytes(exported.buffer) /\ exported.buffer.dtype = "int16")
          => Slice(disk, 0, 8) = <<128, 187, 0, 0, 2, 0, 1, 0>>

\* C9: decoding what export wrote gives back the buffer, the sample rate,
\* the format and the channel count.
C9_RoundTrip ==
    /\ (op = "get_file_data" /\ exported.ok)
       => /\ ret.returned
          /\ ret.value[1] = exported.buffer
          /\ ret.value[2] = exported.sample_rate
          /\ Ndim(ret.value[1]) = exported.channels
    /\ (op = "read_from_erfan" /\ exported.ok)
       => /\ ret.returned
          /\ ret.value = exported.buffer
          /\ stream.rate = exported.sample_rate
          /\ stream.width = ItemSize(exported.buffer.dtype)
          /\ stream.channels = exported.channels

\* the format code in the header of the file on disk
HeaderCode == FromBytes(Slice(disk, 4, 6))

\* C10: decoding a file whose format code is not 1, 2, 3 or 4 fails on every
\* decode path: no buffer is returned.
C10_UnknownCodeFails ==
    (op \in {"read_from_erfan", "get_file_data"} /\ Len(disk) >= 8 /\ HeaderCode \notin 1..4)
    => (err # NoError /\ ret = None)

----------------------------------------------------------------------------
(* Conversions, fades, mixing and playback *)

\* whether the float y = m * 2^e is within 1/abs_max of the sample x (in 1/AmpDen)
Near(y, x, abs_max) ==
    IF y.m = 0 THEN Abs(x) * abs_max <= AmpDen
    ELSE IF y.e > 6 THEN FALSE
    ELSE IF y.e >= 0 THEN Abs(y.m * 2^y.e * AmpDen - x) * abs_max <= AmpDen
    ELSE Abs(y.m * AmpDen - x * 2^(0 - y.e)) * abs_max <= AmpDen * 2^(0 - y.e)

\* C11: pcm2float applied to what float2pcm returned for a float signal gives
\* the signal back within one quantization step, 1 / 2^(bits-1), for every
\* integer width.
C11_RoundTripWithinStep ==
    [][\A sig \in Held, d \in PcmDtypes :
          (/\ op = "float2pcm" /\ bufs = <<sig>> /\ IntKind(d)
           /\ ret.returned /\ ret = Float2Pcm(sig, d).ret
           /\ pcm2float(ret.value))
          => /\ err' = NoError
             /\ ret'.returned
             /\ \A n \in DOMAIN sig.data :
                   Near(ret'.value.floats[n], sig.data[n], 2^(Bits(d) - 1))]_vars

\* C12: a fade with a length above the buffer's size does not fail: it
\* returns the buffer, and the buffer keeps its length.
C12_LongFadeTruncated ==
    [][\A buffer \in Held, len \in FadeLens :
          ((fade_in(buffer, len) \/ fade_out(buffer, len)) /\ len > Len(buffer.data))
          => /\ err' = NoError
             /\ ret' = Returned(bufs'[1])
             /\ Len(bufs'[1].data) = Len(buffer.data)]_vars

\* the sample-wise sum of the first s items of the buffers, divided by their
\* count when keep_volume is set
RECURSIVE SumAt(_, _, _)
SumAt(buffers, n, k) ==
    IF k > Len(buffers) THEN 0 ELSE buffers[k].data[n] + SumAt(buffers, n, k + 1)

Mixed(buffers, keep_volume) ==
    [n \in 1..Shortest(buffers, 1) |->
        IF keep_volume THEN SumAt(buffers, n, 1) \div Len(buffers)
        ELSE SumAt(buffers, n, 1)]

\* a mixing call that leaves its inputs alone and returns their mix
MixedCall(buffers, keep_volume) ==
    /\ bufs' = buffers
    /\ err' = NoError
    /\ ret'.returned
    /\ ret'.value.data = Mixed(buffers, keep_volume)

\* C18: add_buffers and add_multiple_buffers leave the arrays passed in
\* unchanged; the result has the length of the shortest input and holds the
\* sample-wise sum, divided by the number of inputs when keep_volume is set.
C18_MixLeavesInputs ==
    [][/\ \A a \in Held, b \in Held, keep_volume \in BOOLEAN :
             add_buffers(a, b, keep_volume) => MixedCall(<<a, b>>, keep_volume)
       /\ \A buffers \in BufferLists, keep_volume \in BOOLEAN :
             add_multiple_buffers(buffers, keep_volume) => MixedCall(buffers, keep_volume)]_vars

\* the writes of a call, end to end
RECURSIVE Joined(_)
Joined(writes) == IF writes = <<>> THEN <<>> ELSE Head(writes) \o Joined(Tail(writes))

\* the bytes play_buffer is given
WaveBytes(wave_arg) ==
    IF wave_arg.type = "bytes" THEN wave_arg.data
    ELSE ToBytesArray(wave_arg.dtype, wave_arg.data)

\* C19: on an opened stream play_buffer writes every byte of the buffer once,
\* in order, in writes of at most chunk bytes, and returns without an error,
\* whatever the buffer's length.
C19_PlaysEveryByte ==
    [][\A wave_arg \in PlayWaves, chunk \in ChunkSizes :
          (play_buffer(wave_arg, chunk) /\ stream # NoStream)
          => /\ err' = NoError
             /\ Joined(written') = WaveBytes(wave_arg)
             /\ \A w \in DOMAIN written' : Len(written'[w]) <= chunk]_vars

----------------------------------------------------------------------------
(* Oscillators *)

\* round(num / den), for a quotient that is not halfway between two integers
Round(num, den) == (2 * num + den) \div (2 * den)

\* C15: for every oscillator, frequency > 0 and duration > 0 the buffer
\* returned has exactly round(duration * sample_rate) samples.
C15_ExactLength ==
    [][\A wave_type \in Oscillators, freq \in WaveFreqs, dur \in WaveDurs, vol \in Vols :
          (wave(wave_type, freq, dur, vol) /\ freq > 0 /\ dur > 0)
          => /\ ret'.returned
             /\ Len(ret'.value.data) = Round(default_sample_rate * dur, DurDen)]_vars

\* C17: the buffer a cache miss returns equals the buffer the immediately
\* following identical call returns, which is answered from the entry the
\* miss has stored, in every format.
C17_MissEqualsHit ==
    [][\A wave_type \in Oscillators, freq \in WaveFreqs, dur \in WaveDurs, vol \in Vols :
          (/\ wave(wave_type, freq, dur, vol)
           /\ CacheName(wave_type, freq, dur, dtype) \notin DOMAIN existed_notes)
          => /\ CacheName(wave_type, freq, dur, dtype) \in DOMAIN existed_notes'
             /\ ret'.value.data =
                   FromCache(existed_notes'[CacheName(wave_type, freq, dur, dtype)], vol).data]_vars

----------------------------------------------------------------------------
(* Notes and chords *)

\* the results of generate_note_buffer for the notes from k on, one call after
\* the other
RECURSIVE NoteResults(_, _, _, _, _, _)
NoteResults(cache, notes, k, wave_type, duration, volume) ==
    IF k > Len(notes) THEN <<>>
    ELSE LET r == NoteResult(cache, notes[k], wave_type, duration, volume)
         IN  <<r>> \o NoteResults(r.cache, notes, k + 1, wave_type, duration, volume)

\* the largest absolute sample of an array, 0 for an empty one
RECURSIVE Peak(_, _)
Peak(data, k) ==
    IF k > Len(data) THEN 0
    ELSE LET rest == Peak(data, k + 1)
         IN  IF Abs(data[k]) > rest THEN Abs(data[k]) ELSE rest

\* a chord that is the mean of the note buffers rs, with a peak no larger than theirs
ChordOf(rs) ==
    LET buffers == [k \in DOMAIN rs |-> rs[k].ret.value]
    IN  /\ err' = NoError
        /\ ret'.returned
        /\ ret'.value.data = Mixed(buffers, TRUE)
        /\ \E k \in DOMAIN rs : Peak(ret'.value.data, 1) <= Peak(buffers[k].data, 1)

\* C13: a chord over n notes that can each be generated is the sample-wise
\* sum of the n note buffers divided by n, and its peak is at most the
\* largest peak of its notes.
C13_ChordIsMean ==
    [][\A notes \in Chords, wave_type \in NoteWaves, duration \in NoteDurations,
          volume \in NoteVolumes :
          (op' = "generate_chord_buffer"
             /\ generate_chord_buffer(notes, wave_type, duration, volume))
          => \A rs \in {NoteResults(existed_notes, notes, 1, wave_type, duration, volume)} :
                (\A k \in DOMAIN rs : rs[k].err = NoError) => ChordOf(rs)]_vars

----------------------------------------------------------------------------
(* Concurrent callers *)

\* C16: with concurrent callers the lookup of a key and the store that
\* follows a miss are one atomic unit: no key is stored more than once.
C16_StoredOnce == \A name \in DOMAIN stores : stores[name] <= 1

====
